---- MODULE Spec2Model ----
(***************************************************************************)
(* A model of qrl_navigation: the experience replay buffer                 *)
(* (replay_buffer.py) and the two Q-networks (model.py).                   *)
(*                                                                         *)
(* Buffers are objects b \in Buffers.  The generator used for sampling is  *)
(* the one of Python's `random` module: a single process-wide object,      *)
(* modelled by the variable rng.  Its state is a deterministic function of *)
(* the last seed it was given and of the requests served since, which is   *)
(* what rng records.                                                       *)
(***************************************************************************)
EXTENDS Integers, Sequences, FiniteSets, TLC

\* ------------------------------------------------------------------ bounds
NumBuffers == 2
MaxBufferSize == 3
MaxBatchSize == 2
MaxAdds == 4
MaxSamples == 1
NumExperiences == 2
MaxSeed == 1
MaxStateSize == 1
MaxActionSize == 2
MaxLayers == 2
MaxUnits == 2
MaxBatchRows == 2

Buffers == 1..NumBuffers
\* Spec drives one buffer; MultiSpec lets all of them coexist.
SingleBuffer == {b \in Buffers : \A c \in Buffers : b <= c}
\* deque(maxlen=n) needs n >= 0 (None, unbounded, is not an int buffer_size).
BufferSizes == 0..MaxBufferSize
\* batch_size is a count; __init__ rejects none, 0 included.
BatchSizes == 0..MaxBatchSize
Seeds == 0..MaxSeed

Min(a, b) == IF a <= b THEN a ELSE b

\* ------------------------------------------------------------------- state
VARIABLES
    constructed,  \* ghost: b has been constructed
    memory,       \* self.memory, the deque's contents, oldest first
    maxlen,       \* self.memory.maxlen
    batch_size,   \* self.batch_size
    rng,          \* the random module's generator: [seed, calls]
    added,        \* ghost: every experience ever passed to b.add, in order
    ctorSeed,     \* ghost: the seed argument b was constructed with
    ownCalls,     \* ghost: the sample requests b itself has made
    ret,          \* what the last call returned or raised
    net,          \* the network object (model.py)
    out           \* what the last forward call returned or raised

bufVars == <<constructed, memory, maxlen, batch_size, rng, added, ctorSeed, ownCalls, ret>>
netVars == <<net, out>>
vars == <<constructed, memory, maxlen, batch_size, rng, added, ctorSeed, ownCalls, ret, net, out>>

\* ------------------------------------------------------------ experiences
experience(state, action, reward, next_state, done) ==
    [state |-> state, action |-> action, reward |-> reward,
     next_state |-> next_state, done |-> done]

\* The transitions the agent loop may pass to add: pairwise different in
\* every field that can differ, so a misaligned row shows.
Transitions ==
    {experience(<<t>>, t - 1, 0 - t, <<t + 1>>, t = 1) : t \in 1..NumExperiences}

None == experience(<<>>, 0, 0, <<>>, FALSE)

\* ------------------------------------------------------------------ deque
\* A bounded append that refuses the new item when full.
DequeAppendKeepOldest(d, cap, e) ==
    IF cap = 0 THEN <<>>
    ELSE IF Len(d) >= cap THEN d
    ELSE Append(d, e)

\* deque.append with a maxlen: a full deque drops its leftmost item.
DequeAppend(d, cap, e) ==
    IF cap = 0 THEN <<>>
    ELSE IF Len(d) = cap THEN Append(Tail(d), e)
    ELSE Append(d, e)

\* ----------------------------------------------------------------- random
\* The generator at import: seeded from the OS, no seed of the program's.
FreshRng == [seed |-> <<>>, calls |-> <<>>]

\* random.seed(a): the generator restarts from a.
Seeded(s) == [seed |-> <<s>>, calls |-> <<>>]

\* Selecting k >= 1 of n items consumes random numbers; selecting none
\* consumes nothing and leaves the generator where it was.
Requested(calls, n, k) == IF k >= 1 THEN Append(calls, <<n, k>>) ELSE calls

Advance(g, n, k) == [g EXCEPT !.calls = Requested(g.calls, n, k)]

\* random.sample(population, k) raises ValueError unless 0 <= k <= n.
PopulationCheck(n, k) == 0 <= k /\ k <= n

\* Selection with replacement, as random.choices makes it.
DrawsWithReplacement(n, k) == [1..k -> 1..n]

\* The index sequences random.sample can select: k positions, no repeats.
Draws(n, k) ==
    {s \in [1..k -> 1..n] : \A i, j \in 1..k : i /= j => s[i] /= s[j]}

\* A selection that takes the drawn items out of the population.
PopulationAfterSampleConsumed(d, idx) ==
    SelectSeq([i \in 1..Len(d) |-> IF \E j \in DOMAIN idx : idx[j] = i THEN None ELSE d[i]],
              LAMBDA e : e /= None)

\* random.sample reads its population and leaves it as it was.
PopulationAfterSample(d, idx) == d

\* ---------------------------------------------------------------- columns
\* np.vstack of a list: one row per item; a scalar item is a row of one.
Row(x) == <<x>>

\* ndarray.astype(np.uint8) of a bool.
AsUint8(flag) == IF flag THEN 1 ELSE 0

NotNone(exps) == SelectSeq(exps, LAMBDA e : e /= None)

EmptyCols == [states |-> <<>>, actions |-> <<>>, rewards |-> <<>>,
              next_states |-> <<>>, dones |-> <<>>]

Columns(exps) ==
    LET es == NotNone(exps) IN
    [states      |-> [i \in 1..Len(es) |-> es[i].state],
     actions     |-> [i \in 1..Len(es) |-> Row(es[i].action)],
     rewards     |-> [i \in 1..Len(es) |-> Row(es[i].reward)],
     next_states |-> [i \in 1..Len(es) |-> es[i].next_state],
     dones       |-> [i \in 1..Len(es) |-> Row(AsUint8(es[i].done))]]

\* ------------------------------------------------------------ return values
Ret(op, b, err, ready, cols, drawn) ==
    [op |-> op, buf |-> b, err |-> err, ready |-> ready, cols |-> cols, drawn |-> drawn]

NoRet == Ret("none", 0, "none", FALSE, EmptyCols, <<>>)

\* A sample that answers an exception with an empty batch.
SampleSwallow(b, err) == Ret("sample", b, "none", FALSE, EmptyCols, <<>>)

\* An exception leaves sample: nothing in sample catches it.
SampleRaise(b, err) == Ret("sample", b, err, FALSE, EmptyCols, <<>>)

\* ----------------------------------------------------------------- buffer
\* Readiness at a full batch, and readiness of a full buffer.
IsReadyAtLeast(b) == Len(memory[b]) >= batch_size[b]
IsReadyWhenFull(b) == Len(memory[b]) = maxlen[b]

\* ReplayBuffer.is_ready_to_sample, with __len__ as len(self.memory)

is_ready_to_sample(b) == Len(memory[b]) > batch_size[b]

NoNet == [variant |-> "none", status |-> "none", state_size |-> 0, action_size |-> 0,
          fc_units |-> [isList |-> FALSE, items |-> <<>>],
          fc_layers |-> <<>>, value_head |-> <<>>, action_head |-> <<>>]
NoOut == [status |-> "none", input |-> <<>>, shape |-> <<>>, v |-> <<>>, a |-> <<>>, q |-> <<>>]

Init ==
    /\ constructed = [b \in Buffers |-> FALSE]
    /\ memory = [b \in Buffers |-> <<>>]
    /\ maxlen = [b \in Buffers |-> 0]
    /\ batch_size = [b \in Buffers |-> 0]
    /\ rng = FreshRng
    /\ added = [b \in Buffers |-> <<>>]
    /\ ctorSeed = [b \in Buffers |-> 0]
    /\ ownCalls = [b \in Buffers |-> <<>>]
    /\ ret = NoRet
    /\ net = NoNet
    /\ out = NoOut

\* ReplayBuffer.__init__: random.seed(seed) reseeds the module's generator
\* (and returns None, which is what self.seed holds).
Construct(b) ==
    /\ ~constructed[b]
    /\ \E cap \in BufferSizes, k \in BatchSizes, s \in Seeds :
        /\ constructed' = [constructed EXCEPT ![b] = TRUE]
        /\ memory' = [memory EXCEPT ![b] = <<>>]
        /\ maxlen' = [maxlen EXCEPT ![b] = cap]
        /\ batch_size' = [batch_size EXCEPT ![b] = k]
        /\ ctorSeed' = [ctorSeed EXCEPT ![b] = s]
        /\ rng' = Seeded(s)
    /\ ret' = Ret("init", b, "none", FALSE, EmptyCols, <<>>)
    /\ UNCHANGED <<added, ownCalls, net, out>>

Add(b) ==
    /\ constructed[b]
    /\ Len(added[b]) < MaxAdds
    /\ \E e \in Transitions :
        /\ memory' = [memory EXCEPT ![b] = DequeAppend(memory[b], maxlen[b], e)]
        /\ added' = [added EXCEPT ![b] = Append(added[b], e)]
    /\ ret' = Ret("add", b, "none", FALSE, EmptyCols, <<>>)
    /\ UNCHANGED <<constructed, maxlen, batch_size, rng, ctorSeed, ownCalls, net, out>>

Sample(b) ==
    /\ constructed[b]
    /\ LET n == Len(memory[b])
           k == batch_size[b]
       IN  IF ~PopulationCheck(n, k)
           THEN /\ ret' = SampleRaise(b, "ValueError:random.sample")
                /\ UNCHANGED <<memory, rng, ownCalls>>
           ELSE /\ Len(rng.calls) < MaxSamples
                /\ \E idx \in Draws(n, k) :
                    LET experiences == [i \in 1..k |-> memory[b][idx[i]]] IN
                    /\ memory' = [memory EXCEPT ![b] = PopulationAfterSample(memory[b], idx)]
                    /\ ret' = IF Len(NotNone(experiences)) = 0
                              THEN SampleRaise(b, "ValueError:np.vstack")
                              ELSE Ret("sample", b, "none", FALSE, Columns(experiences), idx)
                /\ rng' = Advance(rng, n, k)
                /\ ownCalls' = [ownCalls EXCEPT ![b] = Requested(ownCalls[b], n, k)]
    /\ UNCHANGED <<constructed, maxlen, batch_size, added, ctorSeed, net, out>>

IsReadyToSample(b) ==
    /\ constructed[b]
    /\ ret' = Ret("is_ready_to_sample", b, "none", is_ready_to_sample(b), EmptyCols, <<>>)
    /\ UNCHANGED <<constructed, memory, maxlen, batch_size, rng, added, ctorSeed, ownCalls, net, out>>

BufferStep(b) ==
    \/ Construct(b)
    \/ Add(b)
    \/ Sample(b)
    \/ IsReadyToSample(b)

Next == \E b \in SingleBuffer : BufferStep(b)

Spec == Init /\ [][Next]_vars

\* ---------------------------------------------------------------- networks
\* Width of the first layer of both heads of the dueling network.
HeadWidth == 32

\* An item of fc_units: an int of value val, or something that is no int.
IntItem(u) == [isInt |-> TRUE, val |-> u]
NonIntItem == [isInt |-> FALSE, val |-> 0]
Items == {IntItem(u) : u \in 1..MaxUnits} \cup {NonIntItem}

\* The fc_units a caller may pass: a list of items, or an object that is
\* no list.
FcUnitsInputs ==
    {[isList |-> TRUE, items |-> its] :
        its \in UNION {[1..n -> Items] : n \in 0..MaxLayers}}
    \cup {[isList |-> FALSE, items |-> <<>>]}

StateSizes == 1..MaxStateSize
ActionSizes == 1..MaxActionSize

\* nn.Linear(in_features, out_features).
Linear(i, o) == [in |-> i, out |-> o]

\* The two asserts that open _init_fc_layers; nn.Linear then rejects a size
\* that is no int.
FcUnitsError(fc) ==
    IF ~fc.isList THEN "AssertionError"
    ELSE IF ~(Len(fc.items) > 0) THEN "AssertionError"
    ELSE IF \E i \in 1..Len(fc.items) : ~fc.items[i].isInt THEN "TypeError"
    ELSE "none"

\* A chain whose inner layers take the width they give.
TrunkMiswired(state_size, units) ==
    <<Linear(state_size, units[1])>>
        \o [idx \in 1..(Len(units) - 1) |-> Linear(units[idx + 1], units[idx + 1])]

\* The layers both variants share: state_size -> fc_units[0] -> ... -> fc_units[-1].
Trunk(state_size, units) ==
    <<Linear(state_size, units[1])>>
        \o [idx \in 1..(Len(units) - 1) |-> Linear(units[idx], units[idx + 1])]

Units(fc) == [i \in 1..Len(fc.items) |-> fc.items[i].val]

Network(variant, status, state_size, action_size, fc, layers, vhead, ahead) ==
    [variant |-> variant, status |-> status, state_size |-> state_size,
     action_size |-> action_size, fc_units |-> fc,
     fc_layers |-> layers, value_head |-> vhead, action_head |-> ahead]

FailedNetwork(variant, err, state_size, action_size, fc) ==
    Network(variant, err, state_size, action_size, fc, <<>>, <<>>, <<>>)

\* A constructor that repairs a bad fc_units instead of raising.
DefaultUnits == <<1>>

QInitFcLayersLenient(state_size, action_size, fc) ==
    LET units == IF FcUnitsError(fc) = "none" THEN Units(fc) ELSE DefaultUnits IN
    Network("QNetwork", "ok", state_size, action_size, fc,
            Trunk(state_size, units) \o <<Linear(units[Len(units)], action_size)>>, <<>>, <<>>)

\* QNetwork._init_fc_layers
QInitFcLayers(state_size, action_size, fc) ==
    IF FcUnitsError(fc) /= "none"
    THEN FailedNetwork("QNetwork", FcUnitsError(fc), state_size, action_size, fc)
    ELSE LET units == Units(fc) IN
         Network("QNetwork", "ok", state_size, action_size, fc,
                 Trunk(state_size, units) \o <<Linear(units[Len(units)], action_size)>>,
                 <<>>, <<>>)

\* DuelingQNetwork._init_fc_layers
DuelingInitFcLayers(state_size, action_size, fc) ==
    IF FcUnitsError(fc) /= "none"
    THEN FailedNetwork("DuelingQNetwork", FcUnitsError(fc), state_size, action_size, fc)
    ELSE LET units == Units(fc) IN
         Network("DuelingQNetwork", "ok", state_size, action_size, fc,
                 Trunk(state_size, units),
                 <<Linear(units[Len(units)], HeadWidth), Linear(HeadWidth, 1)>>,
                 <<Linear(units[Len(units)], HeadWidth), Linear(HeadWidth, action_size)>>)

\* Tensor shapes.  A failed operation yields [ok |-> FALSE].
Shape(s) == [ok |-> TRUE, dims |-> s, err |-> "none"]
ShapeError(e) == [ok |-> FALSE, dims |-> <<>>, err |-> e]

\* A linear layer maps the last dimension, which must be its in_features.
ApplyLinear(layer, x) ==
    IF ~x.ok THEN x
    ELSE IF Len(x.dims) = 0 \/ x.dims[Len(x.dims)] /= layer.in
         THEN ShapeError("RuntimeError")
    ELSE Shape([x.dims EXCEPT ![Len(x.dims)] = layer.out])

RECURSIVE ApplyLayers(_, _)
ApplyLayers(layers, x) ==
    IF Len(layers) = 0 THEN x
    ELSE ApplyLayers(Tail(layers), ApplyLinear(Head(layers), x))

\* torch.mean(t, dim=d), d counted from 0: dimension d must exist and goes.
MeanShape(x, d) ==
    IF ~x.ok THEN x
    ELSE IF d >= Len(x.dims) THEN ShapeError("IndexError")
    ELSE Shape(SubSeq(x.dims, 1, d) \o SubSeq(x.dims, d + 2, Len(x.dims)))

\* t.unsqueeze(d): a dimension of size 1 is inserted at d.
UnsqueezeShape(x, d) ==
    IF ~x.ok THEN x
    ELSE IF d > Len(x.dims) THEN ShapeError("IndexError")
    ELSE Shape(SubSeq(x.dims, 1, d) \o <<1>> \o SubSeq(x.dims, d + 1, Len(x.dims)))

Max(a, b) == IF a >= b THEN a ELSE b

\* Broadcasting of an elementwise operation: shapes are aligned at the right.
BroadcastShape(x, y) ==
    IF ~x.ok THEN x
    ELSE IF ~y.ok THEN y
    ELSE LET n == Max(Len(x.dims), Len(y.dims))
             px == [i \in 1..n |-> IF i > n - Len(x.dims) THEN x.dims[i - (n - Len(x.dims))] ELSE 1]
             py == [i \in 1..n |-> IF i > n - Len(y.dims) THEN y.dims[i - (n - Len(y.dims))] ELSE 1]
         IN  IF \E i \in 1..n : px[i] /= py[i] /\ px[i] /= 1 /\ py[i] /= 1
             THEN ShapeError("RuntimeError")
             ELSE Shape([i \in 1..n |-> Max(px[i], py[i])])

\* QNetwork.forward: every layer in turn (relu keeps the shape).
QForwardShape(n, x) == ApplyLayers(n.fc_layers, x)

\* DuelingQNetwork.forward: the shapes of v, of a and of the result.
DuelingVShape(n, x) == ApplyLayers(n.value_head, ApplyLayers(n.fc_layers, x))
DuelingAShape(n, x) == ApplyLayers(n.action_head, ApplyLayers(n.fc_layers, x))
DuelingForwardShape(n, x) ==
    LET v == DuelingVShape(n, x)
        a == DuelingAShape(n, x)
    IN  BroadcastShape(v, BroadcastShape(a, UnsqueezeShape(MeanShape(a, 1), 1)))

\* Exact arithmetic on fractions <<numerator, denominator>>.
Frac(n) == <<n, 1>>
FracAdd(x, y) == <<x[1] * y[2] + y[1] * x[2], x[2] * y[2]>>
FracSub(x, y) == <<x[1] * y[2] - y[1] * x[2], x[2] * y[2]>>
FracEq(x, y) == x[1] * y[2] = y[1] * x[2]

RECURSIVE SumSeq(_)
SumSeq(s) == IF Len(s) = 0 THEN 0 ELSE Head(s) + SumSeq(Tail(s))

RECURSIVE FracSum(_)
FracSum(s) == IF Len(s) = 0 THEN Frac(0) ELSE FracAdd(Head(s), FracSum(Tail(s)))

Flatten(a) == [p \in 1..(Len(a) * Len(a[1])) |->
                 a[((p - 1) \div Len(a[1])) + 1][((p - 1) % Len(a[1])) + 1]]

\* A mean over all of a, as torch.mean(a) without dim gives.
MeanOverAll(a) == [i \in 1..Len(a) |-> <<SumSeq(Flatten(a)), Len(a) * Len(a[1])>>]

\* torch.mean(a, dim=1).unsqueeze(1) of a batch a: one mean per sample.
MeanOverActions(a) == [i \in 1..Len(a) |-> <<SumSeq(a[i]), Len(a[i])>>]

\* v + (a - mean): v and the mean are broadcast over the actions.
Combine(v, a) ==
    LET m == MeanOverActions(a) IN
    [i \in 1..Len(a) |->
        [j \in 1..Len(a[i]) |-> FracAdd(Frac(v[i][1]), FracSub(Frac(a[i][j]), m[i]))]]

\* The values the last layer of a head can produce: any, here of both signs.
HeadValues == {0 - 1, 1}
Batches(rows, cols) == [1..rows -> [1..cols -> HeadValues]]

\* The states forward is called on: one vector of state_size numbers, or a
\* batch of them.
InputShapes(state_size) ==
    {<<state_size>>} \cup {<<rows, state_size>> : rows \in 1..MaxBatchRows}

Output(status, input, shape, v, a, q) ==
    [status |-> status, input |-> input, shape |-> shape, v |-> v, a |-> a, q |-> q]

\* QNetwork.__init__
QConstruct ==
    /\ net = NoNet
    /\ \E state_size \in StateSizes, action_size \in ActionSizes, fc \in FcUnitsInputs :
        net' = QInitFcLayers(state_size, action_size, fc)
    /\ out' = NoOut
    /\ UNCHANGED bufVars

\* DuelingQNetwork.__init__
DuelingConstruct ==
    /\ net = NoNet
    /\ \E state_size \in StateSizes, action_size \in ActionSizes, fc \in FcUnitsInputs :
        net' = DuelingInitFcLayers(state_size, action_size, fc)
    /\ out' = NoOut
    /\ UNCHANGED bufVars

\* forward reads the parameters and changes nothing, so the first call on a
\* network already reaches every result a later call can give.
QForward ==
    /\ net.variant = "QNetwork" /\ net.status = "ok"
    /\ out = NoOut
    /\ \E input \in InputShapes(net.state_size) :
        LET y == QForwardShape(net, Shape(input)) IN
        out' = Output(IF y.ok THEN "ok" ELSE y.err, input, y.dims, <<>>, <<>>, <<>>)
    /\ UNCHANGED <<net>>
    /\ UNCHANGED bufVars

DuelingForward ==
    /\ net.variant = "DuelingQNetwork" /\ net.status = "ok"
    /\ out = NoOut
    /\ \E input \in InputShapes(net.state_size) :
        LET y == DuelingForwardShape(net, Shape(input)) IN
        IF ~y.ok
        THEN out' = Output(y.err, input, <<>>, <<>>, <<>>, <<>>)
        ELSE \E v \in Batches(input[1], 1), a \in Batches(input[1], net.action_size) :
                out' = Output("ok", input, y.dims, v, a, Combine(v, a))
    /\ UNCHANGED <<net>>
    /\ UNCHANGED bufVars

NetNext ==
    \/ QConstruct
    \/ DuelingConstruct
    \/ QForward
    \/ DuelingForward

NetSpec == Init /\ [][NetNext]_vars

\* Several buffers alive in one process, as in a program with two agents;
\* the adds of any two of them together are bounded.
AddShared(b) ==
    /\ \A c \in Buffers \ {b} : Len(added[b]) + Len(added[c]) < MaxBatchSize + 1
    /\ Add(b)

NextMulti ==
    \E b \in Buffers :
        \/ Construct(b)
        \/ AddShared(b)
        \/ Sample(b)
        \/ IsReadyToSample(b)

MultiSpec == Init /\ [][NextMulti]_vars

\* "Under repeated add calls": an add that can be made is eventually made.
FairSpec == Init /\ [][Next]_vars /\ WF_vars(\E b \in SingleBuffer : Add(b))

\* ------------------------------------------------------------- properties
\* The last n items of a sequence.
LastN(s, n) == SubSeq(s, Len(s) - n + 1, Len(s))

\* C1: after n adds the buffer holds exactly the last min(n, buffer_size)
\* added experiences, in insertion order; so its length never exceeds
\* buffer_size and a full buffer loses its oldest entry, and only that one,
\* on each add.
C1_HoldsLastAdded ==
    \A b \in Buffers : constructed[b] =>
        /\ Len(memory[b]) = Min(Len(added[b]), maxlen[b])
        /\ Len(memory[b]) <= maxlen[b]
        /\ memory[b] = LastN(added[b], Min(Len(added[b]), maxlen[b]))

\* A full buffer has just taken one more add.
C1_Witness ==
    \E b \in Buffers :
        /\ ret.op = "add" /\ ret.buf = b
        /\ maxlen[b] >= 2
        /\ Len(added[b]) > maxlen[b]
        /\ memory[b][1] /= memory[b][Len(memory[b])]

\* C2: is_ready_to_sample() returns true exactly when len() > batch_size:
\* false at len() = batch_size, true at len() = batch_size + 1.
C2_ReadyIffLenExceedsBatch ==
    \A b \in Buffers : (ret.op = "is_ready_to_sample" /\ ret.buf = b) =>
        /\ ret.ready <=> (Len(memory[b]) >= batch_size[b] + 1)
        /\ Len(memory[b]) = batch_size[b] => ~ret.ready
        /\ Len(memory[b]) = batch_size[b] + 1 => ret.ready

\* is_ready_to_sample() has answered at len() = batch_size, a real batch size.
C2_Witness ==
    \E b \in Buffers :
        /\ ret.op = "is_ready_to_sample" /\ ret.buf = b
        /\ batch_size[b] >= 1
        /\ Len(memory[b]) = batch_size[b]
        /\ ~ret.ready

\* What sample() must return when it returns a batch: batch_size rows per
\* column, from pairwise distinct positions of the buffer, row i of every
\* column from the i-th experience drawn.
GoodBatch(b) ==
    LET k == batch_size[b]
        idx == ret.drawn
        cols == ret.cols
    IN  /\ ret.err = "none"
        /\ Len(cols.states) = k /\ Len(cols.actions) = k /\ Len(cols.rewards) = k
        /\ Len(cols.next_states) = k /\ Len(cols.dones) = k
        /\ Len(idx) = k
        /\ \A i \in 1..Len(idx) : idx[i] \in 1..Len(memory[b])
        /\ \A i, j \in 1..Len(idx) : i /= j => idx[i] /= idx[j]
        /\ \A i \in 1..Len(idx) :
            LET e == memory[b][idx[i]] IN
            /\ cols.states[i] = e.state
            /\ cols.actions[i] = <<e.action>>
            /\ cols.rewards[i] = <<e.reward>>
            /\ cols.next_states[i] = e.next_state
            /\ cols.dones[i] = <<IF e.done THEN 1 ELSE 0>>

\* C3 as stated: whenever is_ready_to_sample() is true, sample() returns five
\* aligned columns of batch_size rows from distinct positions.
C3_SampleWhenReady ==
    \A b \in Buffers :
        (ret.op = "sample" /\ ret.buf = b /\ is_ready_to_sample(b)) => GoodBatch(b)

\* C3 amended: the same, for a batch size of at least one.
C3_SampleWhenReadyPositiveBatch ==
    \A b \in Buffers :
        (ret.op = "sample" /\ ret.buf = b /\ is_ready_to_sample(b) /\ batch_size[b] >= 1)
            => GoodBatch(b)

\* A batch of two different experiences was drawn, out of order.
C3_Witness ==
    \E b \in Buffers :
        /\ ret.op = "sample" /\ ret.buf = b /\ is_ready_to_sample(b)
        /\ batch_size[b] >= 2
        /\ ret.err = "none"
        /\ ret.drawn[1] > ret.drawn[2]
        /\ ret.cols.states[1] /= ret.cols.states[2]

\* C4: a sample() call, whether it returns or raises, leaves the stored
\* experiences, batch_size and the capacity as they were.
C4_SampleLeavesBufferUnchanged ==
    [][ret'.op = "sample" =>
        /\ memory' = memory
        /\ batch_size' = batch_size
        /\ maxlen' = maxlen]_vars

\* sample() has returned a batch from a buffer holding different experiences.
C4_Witness ==
    \E b \in Buffers :
        /\ ret.op = "sample" /\ ret.buf = b /\ ret.err = "none"
        /\ Len(ret.drawn) >= 1
        /\ Len(memory[b]) >= 2
        /\ memory[b][1] /= memory[b][2]

\* C5: the generator a buffer samples with is its own: when b.sample() has
\* drawn, the generator is the one seeded with b's seed and advanced by b's
\* own sample calls, whatever other buffers were constructed or sampled.
C5_PrivateRandomSource ==
    \A b \in Buffers :
        (ret.op = "sample" /\ ret.buf = b /\ ret.err = "none") =>
            rng = [seed |-> <<ctorSeed[b]>>, calls |-> ownCalls[b]]

\* C6: sample() raises to its caller, returning no batch, whenever batch_size
\* exceeds len(); and when is_ready_to_sample() is true it does not raise for
\* lack of entries.
C6_SampleFailsOnShortBuffer ==
    \A b \in Buffers : (ret.op = "sample" /\ ret.buf = b) =>
        /\ batch_size[b] > Len(memory[b]) =>
            /\ ret.err = "ValueError:random.sample"
            /\ ret.cols = EmptyCols
            /\ ret.drawn = <<>>
        /\ is_ready_to_sample(b) => ret.err /= "ValueError:random.sample"
        /\ (is_ready_to_sample(b) /\ batch_size[b] >= 1) => ret.err = "none"

\* sample() has raised on a non-empty buffer one entry short of a batch.
C6_Witness ==
    \E b \in Buffers :
        /\ ret.op = "sample" /\ ret.buf = b
        /\ Len(memory[b]) >= 1
        /\ batch_size[b] = Len(memory[b]) + 1
        /\ ret.err = "ValueError:random.sample"

\* C10: under repeated adds is_ready_to_sample() becomes true iff
\* buffer_size > batch_size; it is true exactly from the (batch_size + 1)-th
\* add on, stays true under any further add or sample, and is never true
\* when buffer_size <= batch_size.
C10_ReadyEventuallyAndForever ==
    /\ [](\A b \in Buffers : constructed[b] =>
            (is_ready_to_sample(b) <=>
                (Len(added[b]) >= batch_size[b] + 1 /\ maxlen[b] > batch_size[b])))
    /\ [](\A b \in Buffers : (constructed[b] /\ maxlen[b] <= batch_size[b]) =>
            ~is_ready_to_sample(b))
    /\ [][\A b \in Buffers : (constructed[b] /\ is_ready_to_sample(b)) =>
            is_ready_to_sample(b)']_vars
    /\ \A b \in SingleBuffer :
        (constructed[b] /\ maxlen[b] > batch_size[b]) ~> is_ready_to_sample(b)

\* The (batch_size + 1)-th add has just made a buffer ready.
C10_Witness ==
    \E b \in Buffers :
        /\ ret.op = "add" /\ ret.buf = b
        /\ batch_size[b] >= 1
        /\ Len(added[b]) = batch_size[b] + 1
        /\ is_ready_to_sample(b)

\* What forward must return on the input it was given: the input's shape
\* with state_size replaced by action_size.
ExpectedShape == [out.input EXCEPT ![Len(out.input)] = net.action_size]

\* C7 as stated: for both variants forward returns action_size values for a
\* single state vector, and B vectors of action_size values for a batch of B.
C7_ForwardShape ==
    out.status /= "none" => (out.status = "ok" /\ out.shape = ExpectedShape)

\* C7 amended: so it is for QNetwork, and for DuelingQNetwork on a batch; on
\* a single state vector DuelingQNetwork.forward raises IndexError.
C7_ForwardShapeBatchedDueling ==
    out.status /= "none" =>
        /\ (net.variant = "QNetwork" \/ Len(out.input) = 2) =>
            (out.status = "ok" /\ out.shape = ExpectedShape)
        /\ (net.variant = "DuelingQNetwork" /\ Len(out.input) = 1) =>
            (out.status = "IndexError" /\ out.shape = <<>>)

\* The dueling network, with two hidden layers of different widths, has
\* answered a batch of two states.
C7_Witness ==
    /\ net.variant = "DuelingQNetwork"
    /\ Len(net.fc_layers) = 2
    /\ net.fc_layers[1].out /= net.fc_layers[2].out
    /\ out.status = "ok"
    /\ out.input = <<2, net.state_size>>
    /\ out.shape = <<2, net.action_size>>

ValidFcUnits(fc) ==
    /\ fc.isList
    /\ fc.items /= <<>>
    /\ \A i \in DOMAIN fc.items : fc.items[i].isInt /\ fc.items[i].val >= 1

\* The chain state_size -> fc_units[0] -> ... -> fc_units[-1].
IsChain(layers, state_size, fc) ==
    /\ Len(layers) = Len(fc.items)
    /\ layers[1].in = state_size
    /\ \A i \in 1..Len(layers) : layers[i].out = fc.items[i].val
    /\ \A i \in 1..(Len(layers) - 1) : layers[i + 1].in = fc.items[i].val

\* C8: constructing either variant raises when fc_units is empty or is no
\* list of integers, and no network comes of it; for a non-empty list of
\* positive integers it builds the chain state_size -> fc_units[0] -> ... ->
\* fc_units[-1].
C8_ConstructionChecksFcUnits ==
    net.variant /= "none" =>
        /\ ~ValidFcUnits(net.fc_units) =>
            /\ net.status \in {"AssertionError", "TypeError"}
            /\ net.fc_layers = <<>> /\ net.value_head = <<>> /\ net.action_head = <<>>
        /\ ValidFcUnits(net.fc_units) =>
            /\ net.status = "ok"
            /\ net.variant = "QNetwork" =>
                /\ IsChain(SubSeq(net.fc_layers, 1, Len(net.fc_layers) - 1),
                           net.state_size, net.fc_units)
                /\ net.fc_layers[Len(net.fc_layers)] =
                    Linear(net.fc_units.items[Len(net.fc_units.items)].val, net.action_size)
            /\ net.variant = "DuelingQNetwork" =>
                IsChain(net.fc_layers, net.state_size, net.fc_units)

\* A constructor was given an empty list and raised.
C8_Witness ==
    /\ net.variant = "DuelingQNetwork"
    /\ net.fc_units.isList
    /\ net.fc_units.items = <<>>
    /\ net.status = "AssertionError"

\* C9: in the dueling output the sum over the actions of Q - V is zero for
\* every sample, and Q differs between two actions as A does: Q is V plus A
\* centred on its own mean over the sample's actions.
C9_AdvantageCentred ==
    (net.variant = "DuelingQNetwork" /\ out.status = "ok") =>
        \A i \in 1..Len(out.q) :
            /\ Len(out.q[i]) = net.action_size
            /\ FracSum([j \in 1..Len(out.q[i]) |->
                    FracSub(out.q[i][j], Frac(out.v[i][1]))])[1] = 0
            /\ \A j, k \in 1..Len(out.q[i]) :
                FracEq(FracSub(out.q[i][j], out.q[i][k]),
                       Frac(out.a[i][j] - out.a[i][k]))

\* A batch of two samples whose advantages have different means, one of
\* them not zero, one sample with advantages that differ.
C9_Witness ==
    /\ net.variant = "DuelingQNetwork" /\ out.status = "ok"
    /\ Len(out.q) = 2
    /\ net.action_size >= 2
    /\ SumSeq(out.a[1]) /= 0
    /\ SumSeq(out.a[1]) /= SumSeq(out.a[2])
    /\ out.a[2][1] /= out.a[2][2]

====
